---- MODULE Spec2Model ----
(***************************************************************************)
(* The interactive selector of try.rs (TrySelector): the event loop, the   *)
(* delete-confirmation sub-loop, the entry source, the scorer and the      *)
(* scroll adjustment of the renderer.                                       *)
(*                                                                         *)
(* Strings are sequences of one-character strings.  f64 scores are fixed-  *)
(* point integers (FX units per 1.0) with a floor integer square root.     *)
(* A modification time is an age in whole hours before the clock reading,  *)
(* or FutureMtime when it lies after it.                                    *)
(*                                                                         *)
(* A step is one handled event: the handler, then the refresh_scores and   *)
(* the render the loop iteration ends with; a step that ends the loop      *)
(* includes the teardown of run().  The terminal is its raw mode and its   *)
(* cursor visibility; its width and what is drawn on it are left out.      *)
(*                                                                         *)
(* Spec       no call on the terminal fails; fs::remove_dir_all may fail.  *)
(* SpecIO     calls on the terminal, the event queue and the disk may fail.*)
(* SpecScroll Scan mode over a listing longer than the window.             *)
(* SpecDated  Scan mode over a directory named <name>-<YYYY-MM-DD>.        *)
(* SpecDisk   Spec with directories removed by other processes meanwhile.  *)
(***************************************************************************)
EXTENDS Integers, Sequences, FiniteSets, TLC

(* ---------------------------- bounds ----------------------------------- *)
\* longest query the keyboard actions build
MaxQuery == 2
\* longest text collected by the confirmation sub-loop
MaxInput == 3

(* ---------------------------- characters ------------------------------- *)
\* char::to_lowercase over the alphabet used here
to_lowercase(c) ==
    IF c = "A" THEN "a" ELSE IF c = "B" THEN "b" ELSE IF c = "E" THEN "e"
    ELSE IF c = "S" THEN "s" ELSE IF c = "Y" THEN "y" ELSE c

\* char::is_numeric
is_numeric(c) == c \in {"0", "1", "2", "6"}

\* char::is_alphanumeric
is_alphanumeric(c) ==
    \/ c \in {"A", "B", "E", "S", "Y"}
    \/ c \in {"a", "b", "e", "n", "s", "x", "y"}
    \/ is_numeric(c)

\* str::to_lowercase
Lower(s) == [i \in 1..Len(s) |-> to_lowercase(s[i])]

\* str::replace(" ", "-")
ReplaceSpaces(s) == [i \in 1..Len(s) |-> IF s[i] = " " THEN "-" ELSE s[i]]

\* String::pop: drops the last character, a no-op on the empty string
Pop(s) == IF Len(s) = 0 THEN s ELSE SubSeq(s, 1, Len(s) - 1)

(* ---------------------------- fixed point ------------------------------ *)
FX == 1000

RECURSIVE ISqrtIter(_, _, _)
ISqrtIter(n, lo, hi) ==
    IF lo >= hi THEN lo
    ELSE LET mid == (lo + hi + 1) \div 2
         IN  IF mid * mid <= n THEN ISqrtIter(n, mid, hi)
             ELSE ISqrtIter(n, lo, mid - 1)

\* floor(FX * k / sqrt(d)) for small k, d >= 1
DivSqrt(k, d) == ISqrtIter((k * k * FX * FX) \div d, 0, k * FX)

(* ---------------------------- the scorer ------------------------------- *)
FutureMtime == -1

\* the while loop of calculate_score: i and qi are 0-based as in the source
RECURSIVE ScoreWalk(_, _, _, _, _, _)
ScoreWalk(text, q, i, qi, last, score) ==
    IF ~(i < Len(text) /\ qi < Len(q))
    THEN [score |-> score, qi |-> qi, last |-> last]
    ELSE IF text[i + 1] = q[qi + 1]
         THEN LET is_boundary == i = 0 \/ ~is_alphanumeric(text[i])
                  s1 == score + FX + (IF is_boundary THEN FX ELSE 0)
                  s2 == IF last >= 0 THEN s1 + DivSqrt(2, (i - last - 1) + 1) ELSE s1
              IN  ScoreWalk(text, q, i + 1, qi + 1, i, s2)
         ELSE ScoreWalk(text, q, i + 1, qi, last, score)

RecencyBonus(mtime) ==
    IF mtime = FutureMtime THEN 0 ELSE DivSqrt(3, mtime + 1)

\* calculate_score with the hard reject forgotten: a query that is not a
\* subsequence still collects the recency bonus
calculate_score_no_reject(entry, query) ==
    LET base == IF Len(entry.basename) > 0 /\ is_numeric(entry.basename[Len(entry.basename)])
                THEN 2 * FX ELSE 0
    IN  IF query # <<>>
        THEN LET w == ScoreWalk(entry.basename_down, query, 0, 0, -1, base)
             IN  IF w.qi < Len(query) THEN 0 + RecencyBonus(entry.mtime)
                 ELSE LET dens == IF w.last >= 0
                                  THEN (w.score * Len(query)) \div (w.last + 1)
                                  ELSE w.score
                          pen  == (dens * 10) \div (Len(entry.basename) + 10)
                      IN  pen + RecencyBonus(entry.mtime)
        ELSE base + RecencyBonus(entry.mtime)

calculate_score(entry, query) ==
    LET base == IF Len(entry.basename) > 0 /\ is_numeric(entry.basename[Len(entry.basename)])
                THEN 2 * FX ELSE 0
    IN  IF query # <<>>
        THEN LET w == ScoreWalk(entry.basename_down, query, 0, 0, -1, base)
             IN  IF w.qi < Len(query) THEN 0
                 ELSE LET dens == IF w.last >= 0
                                  THEN (w.score * Len(query)) \div (w.last + 1)
                                  ELSE w.score
                          pen  == (dens * 10) \div (Len(entry.basename) + 10)
                      IN  pen + RecencyBonus(entry.mtime)
        ELSE base + RecencyBonus(entry.mtime)

\* the while loop of calculate_score again, keeping the positions of the
\* name it matched (0-based) instead of the score
RECURSIVE MatchWalk(_, _, _, _, _)
MatchWalk(text, q, i, qi, acc) ==
    IF ~(i < Len(text) /\ qi < Len(q)) THEN acc
    ELSE IF text[i + 1] = q[qi + 1]
         THEN MatchWalk(text, q, i + 1, qi + 1, acc \cup {i})
         ELSE MatchWalk(text, q, i + 1, qi, acc)

\* the positions of the name calculate_score matched for the lowercased query
score_positions(entry, query) ==
    IF query = <<>> THEN {} ELSE MatchWalk(entry.basename_down, query, 0, 0, {})

(* ---------------------------- highlighting ------------------------------ *)
\* the for loop of print_highlighted: the positions of text (0-based) it
\* prints in the highlight colour
RECURSIVE HighlightWalk(_, _, _, _, _)
HighlightWalk(text_lower, query_chars, i, query_idx, acc) ==
    IF i >= Len(text_lower) THEN acc
    ELSE IF query_idx < Len(query_chars) /\ text_lower[i + 1] = query_chars[query_idx + 1]
         THEN HighlightWalk(text_lower, query_chars, i + 1, query_idx + 1, acc \cup {i})
         ELSE HighlightWalk(text_lower, query_chars, i + 1, query_idx, acc)

print_highlighted(text, query) ==
    IF query = <<>> THEN {}
    ELSE HighlightWalk(Lower(text), Lower(query), 0, 0, {})

\* the length of a date suffix YYYY-MM-DD
DateLen == 10

\* Regex ^(.+)-(\d{4}-\d{2}-\d{2})$ on the name: the length of capture 1,
\* or 0 when the name does not match
date_regex(name) ==
    LET n == Len(name) - DateLen - 1
        Digit(k) == is_numeric(name[n + 1 + k])
    IN  IF /\ n >= 1
           /\ name[n + 1] = "-"
           /\ \A k \in {1, 2, 3, 4, 6, 7, 9, 10} : Digit(k)
           /\ name[n + 1 + 5] = "-"
           /\ name[n + 1 + 8] = "-"
        THEN n ELSE 0

\* render: the positions of the entry's name (0-based) painted in the
\* highlight colour for the query in input_buffer
highlighted(basename, buf) ==
    LET n == date_regex(basename)
    IN  IF n > 0
        THEN print_highlighted(SubSeq(basename, 1, n), buf)
                 \cup (IF buf # <<>> /\ (\E k \in 1..Len(buf) : buf[k] = "-")
                       THEN {n} ELSE {})
        ELSE print_highlighted(basename, buf)

(* ---------------------------- the disk ---------------------------------- *)
\* What fs::read_dir(base) yields, in listing order, while the items exist.
ScanListing ==
    << [path |-> "base/.a",  name |-> <<".", "a">>,      mtime |-> 0,           is_dir |-> TRUE,  under |-> {}],
       [path |-> "base/Ab",  name |-> <<"A", "b">>,      mtime |-> 3,           is_dir |-> TRUE,  under |-> {}],
       [path |-> "base/b-1", name |-> <<"b", "-", "1">>, mtime |-> FutureMtime, is_dir |-> TRUE,  under |-> {}],
       [path |-> "base/n",   name |-> <<"n">>,           mtime |-> 0,           is_dir |-> FALSE, under |-> {}],
       [path |-> "base/aa",  name |-> <<"a", "a">>,      mtime |-> 8,           is_dir |-> TRUE,  under |-> {}],
       [path |-> "base/ba",  name |-> <<"b", "a">>,      mtime |-> 15,          is_dir |-> TRUE,  under |-> {}],
       [path |-> "base/a-2026-11-06",
        name |-> <<"a", "-", "2", "0", "2", "6", "-", "1", "1", "-", "0", "6">>,
        mtime |-> 0, is_dir |-> TRUE, under |-> {}] >>

\* the items of a short base directory
ShortBase == {"base/.a", "base/Ab", "base/b-1", "base/n"}

\* the items of a base directory with more rows than a small window shows
LongBase == ShortBase \cup {"base/aa", "base/ba"}

\* the items of a base directory with a directory named <name>-<date>
DatedBase == {"base/Ab", "base/a-2026-11-06"}

\* The workspaces handed to SelectorMode::History, oldest first; name is the
\* full path string.  "/x" is a remembered workspace that no longer exists.
HistoryList ==
    << [path |-> "/a",   name |-> <<"/", "a">>,           mtime |-> 0, is_dir |-> TRUE, under |-> {}],
       [path |-> "/x",   name |-> <<"/", "x">>,           mtime |-> 0, is_dir |-> TRUE, under |-> {}],
       [path |-> "/a/B", name |-> <<"/", "a", "/", "B">>, mtime |-> 0, is_dir |-> TRUE, under |-> {"/a"}] >>

Range(s) == {s[i] : i \in 1..Len(s)}

Disk == Range(ScanListing) \cup Range(HistoryList)

\* the paths fs::remove_dir_all(p) takes away besides p itself
Descendants(p) == {d.path : d \in {x \in Disk : p \in x.under}}

(* ---------------------------- inputs ------------------------------------ *)
\* search terms the selector is constructed with
SearchTerms == {<<>>, <<"a", " ">>}

\* KeyCode::Char(c) events of the main loop
QueryKeys == {"a", "B", " ", "!"}

\* KeyCode::Char(c) events of the confirmation sub-loop
ConfirmKeys == {"Y", "E", "S", "e"}

\* terminal height of the runs over a short listing: the initial size and
\* Event::Resize (the window is never shorter than the list there)
Heights == {12}

\* KeyCode::Char(c) events of the runs over the dated listing
DatedKeys == {"a", "-", "2"}

\* terminal heights of the scrolling runs: one below 8 rows, one above 11
ScrollHeights == {5, 12}

\* Local::now().format("%Y-%m-%d")
date_suffix == <<"2", "0", "2", "6", "-", "1", "1", "-", "0", "6">>

YES == <<"Y", "E", "S">>

(* ---------------------------- state ------------------------------------- *)
VARIABLES
    mode,                 \* "Scan" | "History"
    fs,                   \* paths that exist on disk
    base_exists,          \* the base directory of Scan mode exists
    input_buffer,
    cursor_pos,
    scroll_offset,
    entries,
    marked_for_deletion,
    delete_mode,
    delete_status,
    height,
    pc,                   \* "new" | "main" | "confirm" | "exited"
    input,                \* the local `input` of confirm_batch_delete, <<>> outside it
    lastKey,              \* the event handled last
    result,               \* what run() returned
    raw_mode,             \* the terminal is in raw mode
    cursor_hidden,        \* the terminal cursor is hidden
    io_fails,             \* calls on the terminal may fail in this run
    frame_in              \* the selector as the last call of render received it

vars == << mode, fs, base_exists, input_buffer, cursor_pos, scroll_offset, entries,
           marked_for_deletion, delete_mode, delete_status, height, pc,
           input, lastKey, result, raw_mode, cursor_hidden, io_fails, frame_in >>

\* the fields of TrySelector that change after construction
Sel ==
    [input_buffer |-> input_buffer, cursor_pos |-> cursor_pos,
     scroll_offset |-> scroll_offset, entries |-> entries,
     marked_for_deletion |-> marked_for_deletion, delete_mode |-> delete_mode,
     delete_status |-> delete_status, height |-> height]

Err == [kind |-> "Err", path |-> "", dirname |-> <<>>]

NoResult == [kind |-> "None", path |-> "", dirname |-> <<>>]

StatusNone == [kind |-> "None", count |-> 0]
StatusCancelled == [kind |-> "Cancelled", count |-> 0]
StatusDeleted(n) == [kind |-> "Deleted", count |-> n]

(* ---------------------------- helpers ----------------------------------- *)
Reverse(s) == [i \in 1..Len(s) |-> s[Len(s) + 1 - i]]

Contains(s, x) == \E i \in 1..Len(s) : s[i] = x

MkEntry(d) ==
    [basename |-> d.name, basename_down |-> Lower(d.name), path |-> d.path,
     mtime |-> d.mtime, score |-> 0]

MapEntries(s) == [i \in 1..Len(s) |-> MkEntry(s[i])]

\* load_entries with the path.exists() test of History mode forgotten
load_entries_no_exists(m, b, f) ==
    IF m = "Scan"
    THEN LET Keep(d) == d.path \in f /\ d.is_dir /\ d.name[1] # "."
         IN  IF b THEN MapEntries(SelectSeq(ScanListing, Keep)) ELSE <<>>
    ELSE Reverse(MapEntries(HistoryList))

\* load_entries in mode m over the disk f, b: the base directory exists
load_entries(m, b, f) ==
    IF m = "Scan"
    THEN LET Keep(d) == d.path \in f /\ d.is_dir /\ d.name[1] # "."
         IN  IF b THEN MapEntries(SelectSeq(ScanListing, Keep)) ELSE <<>>
    ELSE LET Exists(d) == d.path \in f
         IN  Reverse(MapEntries(SelectSeq(HistoryList, Exists)))

\* an unstable sort: an entry goes before the entries of equal score
SortInsertBeforeEqual(sorted, e) ==
    LET k == Cardinality({i \in 1..Len(sorted) : sorted[i].score > e.score})
    IN  SubSeq(sorted, 1, k) \o <<e>> \o SubSeq(sorted, k + 1, Len(sorted))

\* slice::sort_by with b.score.partial_cmp(&a.score): stable, high score first
SortInsert(sorted, e) ==
    LET k == Cardinality({i \in 1..Len(sorted) : sorted[i].score >= e.score})
    IN  SubSeq(sorted, 1, k) \o <<e>> \o SubSeq(sorted, k + 1, Len(sorted))

RECURSIVE SortByScore(_, _)
SortByScore(done, rest) ==
    IF rest = <<>> THEN done
    ELSE SortByScore(SortInsert(done, rest[1]), Tail(rest))

\* refresh_scores without the sort_by
refresh_scores_unsorted(es, buf) ==
    LET query == Lower(buf)
    IN  [i \in 1..Len(es) |->
            [es[i] EXCEPT !.score = calculate_score(es[i], query)]]

refresh_scores(es, buf) ==
    LET query == Lower(buf)
        scored == [i \in 1..Len(es) |->
                      [es[i] EXCEPT !.score = calculate_score(es[i], query)]]
    IN  SortByScore(<<>>, scored)

get_filtered_entries(es, buf) ==
    IF buf = <<>> THEN es
    ELSE LET Shown(e) == e.score > 0 IN SelectSeq(es, Shown)

visible_count(es, buf) ==
    Len(get_filtered_entries(es, buf)) + (IF buf # <<>> THEN 1 ELSE 0)

Max(a, b) == IF a >= b THEN a ELSE b
Min(a, b) == IF a <= b THEN a ELSE b

\* the window height without its floor of 3 rows
max_visible_no_floor(h) == Max(h - 8, 0)

\* render: (height as usize).saturating_sub(8).max(3)
max_visible(h) == Max(Max(h - 8, 0), 3)

\* render: the scroll adjustment, the one field a paint writes
render_scroll(cur, scroll, h) ==
    IF cur < scroll THEN cur
    ELSE IF cur >= scroll + max_visible(h) THEN cur + 1 - max_visible(h)
    ELSE scroll

\* render that also pulls the cursor back onto the last row
render_clamps_cursor(s) ==
    LET last == Max(visible_count(s.entries, s.input_buffer) - 1, 0)
        cur  == Min(s.cursor_pos, last)
    IN  [s EXCEPT !.cursor_pos = cur,
                  !.scroll_offset = render_scroll(cur, s.scroll_offset, s.height)]

\* render(&mut self): the selector a paint leaves, given the one it receives
render(s) ==
    [s EXCEPT !.scroll_offset = render_scroll(s.cursor_pos, s.scroll_offset, s.height)]

\* render: which footer the paint of the selector s shows
footer(s) ==
    IF s.delete_status # StatusNone THEN "status"
    ELSE IF s.delete_mode THEN "delete mode"
    ELSE "hints"

\* a call of self.render() on the selector s the handler has produced
Paint(s) ==
    LET r == render(s)
    IN  /\ frame_in' = s
        /\ input_buffer' = r.input_buffer
        /\ cursor_pos' = r.cursor_pos
        /\ scroll_offset' = r.scroll_offset
        /\ entries' = r.entries
        /\ marked_for_deletion' = r.marked_for_deletion
        /\ delete_mode' = r.delete_mode
        /\ delete_status' = r.delete_status
        /\ height' = r.height

\* an iteration of the loop that sets neither needs_redraw nor needs_recalc
NoPaint ==
    UNCHANGED << input_buffer, cursor_pos, scroll_offset, entries, marked_for_deletion,
                 delete_mode, delete_status, height, frame_in >>

\* the statements of run() after main_loop: Show, Clear, MoveTo, disable_raw_mode
TeardownSteps == 4

\* run() from the return of main_loop with res: the teardown, each step of
\* which returns early with its error when it fails (t: the failing step, 0: none)
Teardown(res) ==
    \E t \in (IF io_fails THEN 0..TeardownSteps ELSE {0}) :
        /\ pc' = "exited"
        /\ cursor_hidden' = (t = 1)
        /\ raw_mode' = (t # 0)
        /\ result' = IF t = 0 THEN res ELSE Err

(* ---------------------------- construction ------------------------------ *)
\* TrySelector::new, for each mode main() constructs it in
Init ==
    /\ mode \in {"Scan", "History"}
    /\ \/ /\ mode = "Scan"
          /\ base_exists \in BOOLEAN
          /\ fs = IF base_exists THEN ShortBase ELSE {}
          /\ \E term \in SearchTerms : input_buffer = ReplaceSpaces(term)
       \/ /\ mode = "History"
          /\ base_exists = TRUE
          /\ fs = {"/a", "/a/B"}
          /\ input_buffer = <<>>
    /\ cursor_pos = 0
    /\ scroll_offset = 0
    /\ entries = <<>>
    /\ marked_for_deletion = <<>>
    /\ delete_mode = FALSE
    /\ delete_status = StatusNone
    /\ height \in Heights
    /\ pc = "new"
    /\ input = <<>>
    /\ lastKey = "none"
    /\ result = NoResult
    /\ raw_mode = FALSE
    /\ cursor_hidden = FALSE
    /\ io_fails = FALSE
    /\ frame_in = Sel

(* ---------------------------- run --------------------------------------- *)
\* run() without the create_dir_all of Scan mode
ensure_base_dir_skipped(m, b) == b

\* run(): in Scan mode a missing base directory is created; b is whether
\* it exists before, the value whether it exists after
ensure_base_dir(m, b) == IF m = "Scan" THEN TRUE ELSE b

\* run() up to the first blocking poll of main_loop: load_entries, the
\* create_dir_all of Scan mode, refresh_scores and the first render
Run ==
    /\ pc = "new"
    /\ raw_mode' = TRUE
    /\ cursor_hidden' = TRUE
    /\ base_exists' = ensure_base_dir(mode, base_exists)
    /\ Paint([Sel EXCEPT !.entries = refresh_scores(
                              load_entries(mode, base_exists, fs), input_buffer)])
    /\ pc' = "main"
    /\ lastKey' = "run"
    /\ UNCHANGED << mode, fs, input, result, io_fails >>

(* ---------------------------- main loop --------------------------------- *)
\* the cancel keys without the delete_mode test: they always exit
CancelKeyAlwaysExits(k) ==
    /\ pc = "main"
    /\ lastKey' = k
    /\ Teardown([kind |-> "Cancelled", path |-> "", dirname |-> <<>>])
    /\ NoPaint
    /\ UNCHANGED << mode, fs, base_exists, input, io_fails >>

\* the cancel keys clearing the marks but leaving delete_mode set
CancelKeyKeepsMode(k) ==
    /\ pc = "main"
    /\ lastKey' = k
    /\ IF delete_mode
       THEN /\ Paint([Sel EXCEPT !.marked_for_deletion = <<>>])
            /\ UNCHANGED << pc, result, raw_mode, cursor_hidden >>
       ELSE /\ Teardown([kind |-> "Cancelled", path |-> "", dirname |-> <<>>])
            /\ NoPaint
    /\ UNCHANGED << mode, fs, base_exists, input, io_fails >>

\* KeyCode::Char('c') with CONTROL, and KeyCode::Esc: the same body twice
CancelKey(k) ==
    /\ pc = "main"
    /\ lastKey' = k
    /\ IF delete_mode
       THEN /\ Paint([Sel EXCEPT !.delete_mode = FALSE, !.marked_for_deletion = <<>>])
            /\ UNCHANGED << pc, result, raw_mode, cursor_hidden >>
       ELSE /\ Teardown([kind |-> "Cancelled", path |-> "", dirname |-> <<>>])
            /\ NoPaint
    /\ UNCHANGED << mode, fs, base_exists, input, io_fails >>

KeyCtrlC == CancelKey("CtrlC")

KeyEsc == CancelKey("Esc")

\* handle_selection that takes the first row whatever the cursor
handle_selection_first_row(m, es, buf, cur) ==
    LET filtered == get_filtered_entries(es, buf)
    IN  IF buf # <<>> /\ cur = Len(filtered)
        THEN IF m = "Scan"
             THEN [kind |-> "MkdirCd", path |-> "base",
                   dirname |-> ReplaceSpaces(buf) \o <<"-">> \o date_suffix]
             ELSE NoResult
        ELSE IF cur < Len(filtered)
             THEN IF m = "Scan"
                  THEN [kind |-> "Cd", path |-> filtered[1].path, dirname |-> <<>>]
                  ELSE [kind |-> "Set", path |-> filtered[1].path, dirname |-> <<>>]
             ELSE NoResult

\* handle_selection without the test of the mode on the create-new row
handle_selection_any_mode(m, es, buf, cur) ==
    LET filtered == get_filtered_entries(es, buf)
    IN  IF buf # <<>> /\ cur = Len(filtered)
        THEN [kind |-> "MkdirCd", path |-> "base",
              dirname |-> ReplaceSpaces(buf) \o <<"-">> \o date_suffix]
        ELSE IF cur < Len(filtered)
             THEN IF m = "Scan"
                  THEN [kind |-> "Cd", path |-> filtered[cur + 1].path, dirname |-> <<>>]
                  ELSE [kind |-> "Set", path |-> filtered[cur + 1].path, dirname |-> <<>>]
             ELSE NoResult

\* handle_selection: the action, or NoResult for None
handle_selection(m, es, buf, cur) ==
    LET filtered == get_filtered_entries(es, buf)
    IN  IF buf # <<>> /\ cur = Len(filtered)
        THEN IF m = "Scan"
             THEN [kind |-> "MkdirCd", path |-> "base",
                   dirname |-> ReplaceSpaces(buf) \o <<"-">> \o date_suffix]
             ELSE NoResult
        ELSE IF cur < Len(filtered)
             THEN IF m = "Scan"
                  THEN [kind |-> "Cd", path |-> filtered[cur + 1].path, dirname |-> <<>>]
                  ELSE [kind |-> "Set", path |-> filtered[cur + 1].path, dirname |-> <<>>]
             ELSE NoResult

\* the Enter guard asking for more than one mark
EnterConfirmsSeveral(dm, marked) == dm /\ Len(marked) > 1

\* the guard of the first branch of KeyCode::Enter
EnterConfirms(dm, marked) == dm /\ marked # <<>>

\* KeyCode::Enter: opens confirm_batch_delete up to its first poll, or
\* commits what handle_selection returns
KeyEnter ==
    /\ pc = "main"
    /\ lastKey' = "Enter"
    /\ IF EnterConfirms(delete_mode, marked_for_deletion)
       THEN /\ pc' = "confirm"
            /\ input' = <<>>
            /\ UNCHANGED << result, raw_mode, cursor_hidden >>
       ELSE LET action == handle_selection(mode, entries, input_buffer, cursor_pos)
            IN  /\ IF action # NoResult
                   THEN Teardown(action)
                   ELSE UNCHANGED << pc, result, raw_mode, cursor_hidden >>
                /\ UNCHANGED input
    /\ NoPaint
    /\ UNCHANGED << mode, fs, base_exists, io_fails >>

\* KeyCode::Up, or Ctrl-P
KeyUp(k) ==
    /\ pc = "main"
    /\ lastKey' = k
    /\ IF cursor_pos > 0
       THEN Paint([Sel EXCEPT !.cursor_pos = cursor_pos - 1])
       ELSE NoPaint
    /\ UNCHANGED << mode, fs, base_exists, pc, input, result, raw_mode,
                    cursor_hidden, io_fails >>

\* KeyCode::Down, or Ctrl-N
KeyDown(k) ==
    /\ pc = "main"
    /\ lastKey' = k
    /\ LET max_idx == Max(visible_count(entries, input_buffer) - 1, 0)
       IN  IF cursor_pos < max_idx
           THEN Paint([Sel EXCEPT !.cursor_pos = cursor_pos + 1])
           ELSE NoPaint
    /\ UNCHANGED << mode, fs, base_exists, pc, input, result, raw_mode,
                    cursor_hidden, io_fails >>

\* KeyCode::Backspace
KeyBackspace ==
    /\ pc = "main"
    /\ lastKey' = "Backspace"
    /\ Paint([Sel EXCEPT !.input_buffer = Pop(input_buffer),
                         !.cursor_pos = 0,
                         !.entries = refresh_scores(entries, Pop(input_buffer))])
    /\ UNCHANGED << mode, fs, base_exists, pc, input, result, raw_mode,
                    cursor_hidden, io_fails >>

\* the accepted characters without the space
AcceptsChar_no_space(c) == is_alphanumeric(c) \/ c \in {"-", "_", "."}

\* the characters KeyCode::Char(c) appends to the query
AcceptsChar(c) == is_alphanumeric(c) \/ c \in {"-", "_", ".", " "}

\* KeyCode::Char(c)
KeyChar(c) ==
    /\ pc = "main"
    /\ Len(input_buffer) < MaxQuery
    /\ lastKey' = "Char"
    /\ IF AcceptsChar(c)
       THEN Paint([Sel EXCEPT !.input_buffer = Append(input_buffer, c),
                              !.cursor_pos = 0,
                              !.entries = refresh_scores(entries,
                                                         Append(input_buffer, c))])
       ELSE NoPaint
    /\ UNCHANGED << mode, fs, base_exists, pc, input, result, raw_mode,
                    cursor_hidden, io_fails >>

\* toggle_delete_mark without the final is_empty() reset of delete_mode
toggle_delete_mark_no_reset(es, buf, cur, marked, dm) ==
    LET filtered == get_filtered_entries(es, buf)
    IN  IF cur < Len(filtered)
        THEN LET path == filtered[cur + 1].path
                 NotIt(p) == p # path
                 m2 == IF Contains(marked, path) THEN SelectSeq(marked, NotIt)
                       ELSE Append(marked, path)
                 d2 == IF Contains(marked, path) THEN dm ELSE TRUE
             IN  [marked |-> m2, delete_mode |-> d2]
        ELSE [marked |-> marked, delete_mode |-> dm]

\* toggle_delete_mark indexing the loaded entries instead of the filtered ones
toggle_delete_mark_unfiltered(es, buf, cur, marked, dm) ==
    IF cur < Len(es)
    THEN LET path == es[cur + 1].path
             NotIt(p) == p # path
             m2 == IF Contains(marked, path) THEN SelectSeq(marked, NotIt)
                   ELSE Append(marked, path)
             d2 == IF Contains(marked, path) THEN dm ELSE TRUE
         IN  [marked |-> m2, delete_mode |-> IF m2 = <<>> THEN FALSE ELSE d2]
    ELSE [marked |-> marked, delete_mode |-> dm]

\* toggle_delete_mark where unmarking clears the whole list
toggle_delete_mark_clear_all(es, buf, cur, marked, dm) ==
    LET filtered == get_filtered_entries(es, buf)
    IN  IF cur < Len(filtered)
        THEN LET path == filtered[cur + 1].path
                 m2 == IF Contains(marked, path) THEN <<>>
                       ELSE Append(marked, path)
                 d2 == IF Contains(marked, path) THEN dm ELSE TRUE
             IN  [marked |-> m2, delete_mode |-> IF m2 = <<>> THEN FALSE ELSE d2]
        ELSE [marked |-> marked, delete_mode |-> dm]

\* toggle_delete_mark: the new marks and delete_mode
toggle_delete_mark(es, buf, cur, marked, dm) ==
    LET filtered == get_filtered_entries(es, buf)
    IN  IF cur < Len(filtered)
        THEN LET path == filtered[cur + 1].path
                 NotIt(p) == p # path
                 m2 == IF Contains(marked, path) THEN SelectSeq(marked, NotIt)
                       ELSE Append(marked, path)
                 d2 == IF Contains(marked, path) THEN dm ELSE TRUE
             IN  [marked |-> m2, delete_mode |-> IF m2 = <<>> THEN FALSE ELSE d2]
        ELSE [marked |-> marked, delete_mode |-> dm]

\* KeyCode::Delete
KeyDelete ==
    /\ pc = "main"
    /\ lastKey' = "Delete"
    /\ LET t == toggle_delete_mark(entries, input_buffer, cursor_pos,
                                   marked_for_deletion, delete_mode)
       IN  Paint([Sel EXCEPT !.marked_for_deletion = t.marked,
                              !.delete_mode = t.delete_mode])
    /\ UNCHANGED << mode, fs, base_exists, pc, input, result, raw_mode,
                    cursor_hidden, io_fails >>

\* Event::Resize(w, h)
Resize(h) ==
    /\ pc = "main"
    /\ lastKey' = "Resize"
    /\ Paint([Sel EXCEPT !.height = h])
    /\ UNCHANGED << mode, fs, base_exists, pc, input, result, raw_mode,
                    cursor_hidden, io_fails >>

(* ---------------------------- confirm_batch_delete ---------------------- *)
\* KeyCode::Char(c) in the sub-loop: any character is collected
ConfirmChar(c) ==
    /\ pc = "confirm"
    /\ Len(input) < MaxInput
    /\ lastKey' = "Char"
    /\ input' = Append(input, c)
    /\ NoPaint
    /\ UNCHANGED << mode, fs, base_exists, pc, result, raw_mode, cursor_hidden,
                    io_fails >>

\* KeyCode::Backspace in the sub-loop
ConfirmBackspace ==
    /\ pc = "confirm"
    /\ lastKey' = "Backspace"
    /\ input' = Pop(input)
    /\ NoPaint
    /\ UNCHANGED << mode, fs, base_exists, pc, result, raw_mode, cursor_hidden,
                    io_fails >>

\* the authorizing test made case-insensitive
AuthorizedAnyCase(text) == Lower(text) = Lower(YES)

\* the test that authorizes the removal
Authorized(text) == text = YES

\* the loop without the path.exists() test: removing a missing path fails
RECURSIVE RemoveMarked_no_skip(_, _, _, _, _)
RemoveMarked_no_skip(marked, i, f, failAt, partial) ==
    IF i > Len(marked) THEN [fs |-> f, ok |-> TRUE]
    ELSE IF marked[i] \notin f THEN [fs |-> f, ok |-> FALSE]
    ELSE IF i = failAt THEN [fs |-> f \ partial, ok |-> FALSE]
    ELSE RemoveMarked_no_skip(marked, i + 1,
                              f \ ({marked[i]} \cup Descendants(marked[i])),
                              failAt, partial)

\* the for loop over marked_for_deletion from index i on: a path that does
\* not exist is skipped; fs::remove_dir_all takes the path and what is under
\* it, or fails at index failAt (0: never) having removed `partial` below it
RECURSIVE RemoveMarked(_, _, _, _, _)
RemoveMarked(marked, i, f, failAt, partial) ==
    IF i > Len(marked) THEN [fs |-> f, ok |-> TRUE]
    ELSE IF marked[i] \notin f THEN RemoveMarked(marked, i + 1, f, failAt, partial)
    ELSE IF i = failAt THEN [fs |-> f \ partial, ok |-> FALSE]
    ELSE RemoveMarked(marked, i + 1, f \ ({marked[i]} \cup Descendants(marked[i])),
                      failAt, partial)

\* confirm_batch_delete after the sub-loop broke with `text`, and, when it
\* returns Ok, the refresh_scores and render of the main loop iteration
FinishConfirm(text) ==
    IF Authorized(text)
    THEN \E failAt \in 0..Len(marked_for_deletion) :
         \E partial \in SUBSET (IF failAt = 0 THEN {}
                                ELSE Descendants(marked_for_deletion[failAt])) :
            LET r == RemoveMarked(marked_for_deletion, 1, fs, failAt, partial)
            IN  /\ (failAt # 0) => ~r.ok
                /\ fs' = r.fs
                /\ IF r.ok
                   THEN /\ Paint([Sel EXCEPT
                                   !.delete_status = StatusDeleted(Len(marked_for_deletion)),
                                   !.marked_for_deletion = <<>>,
                                   !.delete_mode = FALSE,
                                   !.entries = refresh_scores(
                                       load_entries(mode, base_exists, r.fs),
                                       input_buffer)])
                        /\ pc' = "main"
                        /\ UNCHANGED << result, raw_mode, cursor_hidden >>
                   ELSE /\ Teardown(Err)
                        /\ NoPaint
    ELSE /\ Paint([Sel EXCEPT
                    !.delete_status = StatusCancelled,
                    !.marked_for_deletion = <<>>,
                    !.delete_mode = FALSE,
                    !.entries = refresh_scores(load_entries(mode, base_exists, fs),
                                               input_buffer)])
         /\ pc' = "main"
         /\ UNCHANGED << fs, result, raw_mode, cursor_hidden >>

\* KeyCode::Enter in the sub-loop: break
ConfirmEnter ==
    /\ pc = "confirm"
    /\ lastKey' = "Enter"
    /\ FinishConfirm(input)
    /\ input' = <<>>
    /\ UNCHANGED << mode, base_exists, io_fails >>

\* KeyCode::Esc in the sub-loop: input.clear(); break
ConfirmEsc ==
    /\ pc = "confirm"
    /\ lastKey' = "Esc"
    /\ FinishConfirm(<<>>)
    /\ input' = <<>>
    /\ UNCHANGED << mode, base_exists, io_fails >>

(* ---------------------------- failing calls ----------------------------- *)
\* the calls of run() before main_loop, each followed by `?`:
\* load_entries, enable_raw_mode, cursor::Hide, Clear, create_dir_all
SetupSteps == 5

\* run() when the setup call numbered step fails: it returns the error at once
RunFails(step) ==
    /\ pc = "new"
    /\ io_fails
    /\ step = SetupSteps => (mode = "Scan" /\ ~base_exists)
    /\ entries' = IF step > 1 THEN load_entries(mode, base_exists, fs) ELSE entries
    /\ raw_mode' = (step > 2)
    /\ cursor_hidden' = (step > 3)
    /\ pc' = "exited"
    /\ result' = Err
    /\ lastKey' = "run"
    /\ UNCHANGED << mode, fs, base_exists, input_buffer, cursor_pos, scroll_offset,
                    marked_for_deletion, delete_mode, delete_status, height, input,
                    io_fails, frame_in >>

\* event::poll, event::read or a write to the terminal fails inside main_loop
\* or confirm_batch_delete: the `?` hands the error to run()
IoError ==
    /\ pc \in {"main", "confirm"}
    /\ io_fails
    /\ lastKey' = "error"
    /\ Teardown(Err)
    /\ NoPaint
    /\ UNCHANGED << mode, fs, base_exists, input, io_fails >>

(* ---------------------------- the shared disk --------------------------- *)
\* another process removes the directory p while the selector runs: what
\* the path.exists() test of the delete loop is there for
DiskRemove(p) ==
    /\ pc \in {"main", "confirm"}
    /\ p \in fs
    /\ fs' = fs \ ({p} \cup Descendants(p))
    /\ lastKey' = "disk"
    /\ NoPaint
    /\ UNCHANGED << mode, base_exists, pc, input, result, raw_mode, cursor_hidden,
                    io_fails >>

(* ---------------------------- specification ----------------------------- *)
Next ==
    \/ Run
    \/ KeyCtrlC
    \/ KeyEsc
    \/ KeyEnter
    \/ \E k \in {"Up", "CtrlP"} : KeyUp(k)
    \/ \E k \in {"Down", "CtrlN"} : KeyDown(k)
    \/ KeyBackspace
    \/ \E c \in QueryKeys : KeyChar(c)
    \/ KeyDelete
    \/ \E h \in Heights : Resize(h)
    \/ \E c \in ConfirmKeys : ConfirmChar(c)
    \/ ConfirmBackspace
    \/ ConfirmEnter
    \/ ConfirmEsc

Spec == Init /\ [][Next]_vars

\* the same program where calls on the terminal can fail
InitIO ==
    /\ mode \in {"Scan", "History"}
    /\ \/ /\ mode = "Scan"
          /\ base_exists \in BOOLEAN
          /\ fs = IF base_exists THEN ShortBase ELSE {}
       \/ /\ mode = "History"
          /\ base_exists = TRUE
          /\ fs = {"/a", "/a/B"}
    /\ input_buffer = <<>>
    /\ cursor_pos = 0
    /\ scroll_offset = 0
    /\ entries = <<>>
    /\ marked_for_deletion = <<>>
    /\ delete_mode = FALSE
    /\ delete_status = StatusNone
    /\ height \in Heights
    /\ pc = "new"
    /\ input = <<>>
    /\ lastKey = "none"
    /\ result = NoResult
    /\ raw_mode = FALSE
    /\ cursor_hidden = FALSE
    /\ io_fails = TRUE
    /\ frame_in = Sel

NextIO ==
    \/ Next
    \/ \E step \in 1..SetupSteps : RunFails(step)
    \/ IoError

SpecIO == InitIO /\ [][NextIO]_vars

\* Scan mode over the long base directory
InitScroll ==
    /\ mode = "Scan"
    /\ base_exists = TRUE
    /\ fs = LongBase
    /\ input_buffer = <<>>
    /\ cursor_pos = 0
    /\ scroll_offset = 0
    /\ entries = <<>>
    /\ marked_for_deletion = <<>>
    /\ delete_mode = FALSE
    /\ delete_status = StatusNone
    /\ height \in ScrollHeights
    /\ pc = "new"
    /\ input = <<>>
    /\ lastKey = "none"
    /\ result = NoResult
    /\ raw_mode = FALSE
    /\ cursor_hidden = FALSE
    /\ io_fails = FALSE
    /\ frame_in = Sel

\* the user types YES in the sub-loop, or breaks off with Enter or Esc
NextScroll ==
    \/ Run
    \/ KeyEsc
    \/ KeyEnter
    \/ KeyUp("Up")
    \/ KeyDown("Down")
    \/ KeyBackspace
    \/ KeyChar("a")
    \/ KeyDelete
    \/ \E h \in ScrollHeights : Resize(h)
    \/ \E c \in ConfirmKeys :
          ConfirmChar(c) /\ Len(input) < Len(YES) /\ c = YES[Len(input) + 1]
    \/ ConfirmEnter
    \/ ConfirmEsc

SpecScroll == InitScroll /\ [][NextScroll]_vars

\* Scan mode over the dated listing
InitDated ==
    /\ mode = "Scan"
    /\ base_exists = TRUE
    /\ fs = DatedBase
    /\ input_buffer = <<>>
    /\ cursor_pos = 0
    /\ scroll_offset = 0
    /\ entries = <<>>
    /\ marked_for_deletion = <<>>
    /\ delete_mode = FALSE
    /\ delete_status = StatusNone
    /\ height \in Heights
    /\ pc = "new"
    /\ input = <<>>
    /\ lastKey = "none"
    /\ result = NoResult
    /\ raw_mode = FALSE
    /\ cursor_hidden = FALSE
    /\ io_fails = FALSE
    /\ frame_in = Sel

NextDated ==
    \/ Run
    \/ KeyEsc
    \/ KeyEnter
    \/ KeyUp("Up")
    \/ KeyDown("Down")
    \/ KeyBackspace
    \/ \E c \in DatedKeys : KeyChar(c)
    \/ KeyDelete
    \/ ConfirmEsc

SpecDated == InitDated /\ [][NextDated]_vars

\* Scan mode over the short listing, on a disk other processes change
InitDisk ==
    /\ mode = "Scan"
    /\ base_exists = TRUE
    /\ fs = ShortBase
    /\ input_buffer = <<>>
    /\ cursor_pos = 0
    /\ scroll_offset = 0
    /\ entries = <<>>
    /\ marked_for_deletion = <<>>
    /\ delete_mode = FALSE
    /\ delete_status = StatusNone
    /\ height \in Heights
    /\ pc = "new"
    /\ input = <<>>
    /\ lastKey = "none"
    /\ result = NoResult
    /\ raw_mode = FALSE
    /\ cursor_hidden = FALSE
    /\ io_fails = FALSE
    /\ frame_in = Sel

NextDisk ==
    \/ Next
    \/ \E p \in {"base/Ab", "base/b-1"} : DiskRemove(p)

SpecDisk == InitDisk /\ [][NextDisk]_vars

(* ---------------------------- properties -------------------------------- *)
\* q is a subsequence of t: its characters appear in t in the same order
IsSubsequence(q, t) ==
    \E f \in [1..Len(q) -> 1..Len(t)] :
        /\ \A i \in 1..Len(q) : t[f[i]] = q[i]
        /\ \A i, j \in 1..Len(q) : i < j => f[i] < f[j]

\* the query matches the entry: lowercased query in lowercased name
Matches(e) == IsSubsequence(Lower(input_buffer), Lower(e.basename))

\* the rows backed by a real entry, as the claims describe the view
View ==
    IF input_buffer = <<>> THEN entries ELSE SelectSeq(entries, Matches)

Paths(es) == {es[i].path : i \in 1..Len(es)}

\* what the entry source yields over the disk f
Loadable(f) ==
    IF mode = "Scan"
    THEN {d.path : d \in {x \in Range(ScanListing) :
                            x.path \in f /\ x.is_dir /\ x.name[1] # "."}}
    ELSE {d.path : d \in {x \in Range(HistoryList) : x.path \in f}}

\* C1: whenever visible_count > 0, 0 <= cursor_index < visible_count, in
\* every state reachable by input events, batch deletes included.
C1_CursorInBounds ==
    visible_count(entries, input_buffer) > 0
        => (0 <= cursor_pos /\ cursor_pos < visible_count(entries, input_buffer))

\* C2: the create-new row is part of the view iff the query is non-empty
\* and the mode is Scan; otherwise visible_count is the number of filtered
\* entries.
C2_CreateRowIffScan ==
    pc = "main" =>
        /\ (visible_count(entries, input_buffer) = Len(View) + 1)
               <=> (input_buffer # <<>> /\ mode = "Scan")
        /\ (mode = "History" \/ input_buffer = <<>>)
               => visible_count(entries, input_buffer) = Len(View)

\* C3: Enter with no marks and the cursor on a real row exits with one
\* action carrying the location at the cursor row of the view: Cd in Scan
\* mode, Set in History mode.
C3_EnterCommitsCursorRow ==
    [][ (pc = "main" /\ lastKey' = "Enter" /\ marked_for_deletion = <<>>
            /\ cursor_pos < Len(View))
        => /\ pc' = "exited"
           /\ result' = [kind |-> IF mode = "Scan" THEN "Cd" ELSE "Set",
                         path |-> View[cursor_pos + 1].path, dirname |-> <<>>] ]_vars

C3_Witness ==
    /\ pc = "exited"
    /\ result.kind \in {"Cd", "Set"}
    /\ cursor_pos > 0
    /\ input_buffer # <<>>

\* C4: create-and-enter is committed only in Scan mode, with a non-empty
\* query, no marks and the cursor on the trailing virtual row, and its path
\* is base/<query, spaces as hyphens>-<date>.
C4_CreateOnlyFromVirtualRow ==
    result.kind = "MkdirCd" =>
        /\ mode = "Scan"
        /\ input_buffer # <<>>
        /\ marked_for_deletion = <<>>
        /\ cursor_pos = Len(View)
        /\ result.path = "base"
        /\ Len(result.dirname) = Len(input_buffer) + 1 + Len(date_suffix)
        /\ \A i \in 1..Len(input_buffer) :
               result.dirname[i] = (IF input_buffer[i] = " " THEN "-" ELSE input_buffer[i])
        /\ result.dirname[Len(input_buffer) + 1] = "-"
        /\ \A i \in 1..Len(date_suffix) :
               result.dirname[Len(input_buffer) + 1 + i] = date_suffix[i]

C4_Witness ==
    /\ result.kind = "MkdirCd"
    /\ Contains(input_buffer, " ")
    /\ Contains(result.dirname, "a")

\* C5: in the confirmation sub-loop the marked directories are removed iff
\* the text at Enter is exactly "YES"; any other text, and Esc at any point,
\* leaves the disk as it is and sets the cancelled status.
C5_OnlyYesDeletes ==
    [][ pc = "confirm" =>
          LET yes == lastKey' = "Enter" /\ input = <<"Y", "E", "S">>
          IN  /\ (pc' = "confirm") => fs' = fs
              /\ (pc' # "confirm" /\ ~yes)
                    => (fs' = fs /\ delete_status' = StatusCancelled /\ pc' = "main")
              /\ (pc' = "main" /\ yes)
                    => /\ \A i \in 1..Len(marked_for_deletion) :
                              marked_for_deletion[i] \notin fs'
                       /\ fs' \subseteq fs
                       /\ delete_status'.kind = "Deleted" ]_vars

C5_Witness ==
    /\ pc = "main"
    /\ lastKey = "Enter"
    /\ delete_status.kind = "Deleted"
    /\ mode = "Scan"
    /\ "base/Ab" \notin fs
    /\ "base/b-1" \in fs

\* C6: Enter with at least one mark opens the confirmation sub-loop and
\* commits no action, whatever row the cursor is on.
C6_EnterWithMarksConfirms ==
    [][ (pc = "main" /\ lastKey' = "Enter" /\ marked_for_deletion # <<>>)
        => (pc' = "confirm" /\ result' = NoResult) ]_vars

C6_Witness ==
    /\ pc = "confirm"
    /\ input_buffer # <<>>
    /\ cursor_pos = Len(View)

\* C7: Esc or Ctrl-C in the main loop exits cancelled when nothing is
\* marked; with marks it clears them and delete_mode, stays in the loop and
\* leaves query, cursor and entries as they are.
C7_CancelKeys ==
    [][ (pc = "main" /\ lastKey' \in {"Esc", "CtrlC"})
        => IF marked_for_deletion = <<>>
           THEN pc' = "exited" /\ result'.kind = "Cancelled"
           ELSE /\ marked_for_deletion' = <<>>
                /\ delete_mode' = FALSE
                /\ pc' = "main"
                /\ result' = NoResult
                /\ UNCHANGED << input_buffer, cursor_pos, entries >> ]_vars

C7_Witness ==
    /\ pc = "main"
    /\ lastKey = "CtrlC"
    /\ input_buffer # <<>>
    /\ cursor_pos > 0
    /\ entries # <<>>

\* C8: when the sub-loop returns, marks are empty, delete_mode is false,
\* the entries are those the source yields now, scored for the current
\* query and sorted, the selector is in the main loop, and no entry refers
\* to a removed location.
C8_AfterConfirm ==
    [][ (pc = "confirm" /\ pc' = "main")
        => /\ marked_for_deletion' = <<>>
           /\ delete_mode' = FALSE
           /\ Paths(entries') = Loadable(fs')
           /\ Len(entries') = Cardinality(Loadable(fs'))
           /\ \A i \in 1..Len(entries') :
                  entries'[i].score = calculate_score(entries'[i], Lower(input_buffer'))
           /\ \A i, j \in 1..Len(entries') :
                  i < j => entries'[i].score >= entries'[j].score
           /\ \A p \in fs \ fs' : p \notin Paths(entries')
           /\ input_buffer' = input_buffer ]_vars

C8_Witness ==
    /\ pc = "main"
    /\ delete_status.kind = "Deleted"
    /\ mode = "History"
    /\ Len(entries) = 1
    /\ input_buffer # <<>>

\* C9: in the main loop delete_mode is true iff marked_for_deletion is
\* non-empty.
C9_DeleteModeIffMarks ==
    pc \in {"main", "confirm", "exited"} => (delete_mode <=> marked_for_deletion # <<>>)

C9_Witness ==
    /\ pc = "main"
    /\ delete_mode
    /\ Len(marked_for_deletion) = 1
    /\ lastKey = "Delete"
    /\ delete_status.kind = "Deleted"

\* C10: at every paint the filtered view is all entries when the query is
\* empty, else exactly the entries whose lowercased name has the lowercased
\* query as a subsequence: score 0 and hidden without a match, score > 0
\* and shown with one.
C10_ViewIsSubsequenceFilter ==
    pc = "main" =>
        /\ get_filtered_entries(entries, input_buffer) = View
        /\ input_buffer # <<>> =>
              \A i \in 1..Len(entries) :
                  IF Matches(entries[i]) THEN entries[i].score > 0
                  ELSE entries[i].score = 0

C10_Witness ==
    /\ pc = "main"
    /\ Len(input_buffer) = 2
    /\ \E i, j \in 1..Len(entries) : entries[i].score > 0 /\ entries[j].score = 0

\* C11: once raw mode has been enabled, however the run ends (a committed
\* action, a cancellation, an error of the event loop, of a paint, of a
\* filesystem call or of a setup or teardown step of the terminal), the
\* cursor is shown again and raw mode is disabled when run() returns.
C11_TerminalRestored ==
    pc = "exited" => (~raw_mode /\ ~cursor_hidden)

\* C12: Up or Ctrl-P lowers cursor_pos by exactly one unless it is 0, where
\* it stays; Down or Ctrl-N raises it by exactly one unless it is
\* visible_count - 1 or the view is empty, where it stays; and from a cursor
\* inside the view both leave it inside the view.
C12_UpDownByOne ==
    [][pc = "main" =>
        LET vc == visible_count(entries, input_buffer)
        IN  /\ lastKey' \in {"Up", "CtrlP"} =>
                  cursor_pos' = (IF cursor_pos = 0 THEN 0 ELSE cursor_pos - 1)
            /\ lastKey' \in {"Down", "CtrlN"} =>
                  cursor_pos' = (IF vc = 0 \/ cursor_pos = vc - 1
                                 THEN cursor_pos ELSE cursor_pos + 1)
            /\ (lastKey' \in {"Up", "CtrlP", "Down", "CtrlN"} /\ cursor_pos < vc) =>
                  cursor_pos' < vc]_vars

\* C13: after every paint (the first one, the one after any key that
\* redraws, after a resize to any height, after a batch delete) the cursor
\* row lies inside the window: scroll_offset <= cursor_pos <
\* scroll_offset + max_visible_rows, where max_visible_rows is the terminal
\* height minus 8 and at least 3.
C13_CursorInWindow ==
    pc \in {"main", "confirm"} =>
        LET rows == IF height - 8 > 3 THEN height - 8 ELSE 3
        IN  scroll_offset <= cursor_pos /\ cursor_pos < scroll_offset + rows

\* the window has moved down and the terminal is lower than 8 rows
C13_Witness ==
    pc = "main" /\ scroll_offset > 0 /\ height < 8 /\ lastKey = "Resize"

\* C14: the Delete key toggles the membership in marked_for_deletion of
\* exactly one path, that of the real entry at the cursor row of the
\* filtered view, and changes no other mark, nor the query, the cursor or
\* the entries; on the create-new row or an empty view it changes nothing,
\* so no mark is ever anything but the path of a loaded entry.
C14_DeleteTogglesOne ==
    [][(pc = "main" /\ lastKey' = "Delete") =>
        LET before == Range(marked_for_deletion)
            after  == Range(marked_for_deletion')
        IN  /\ UNCHANGED << input_buffer, cursor_pos, entries >>
            /\ IF cursor_pos < Len(View)
               THEN LET p == View[cursor_pos + 1].path
                    IN  /\ after = IF p \in before THEN before \ {p}
                                   ELSE before \cup {p}
                        /\ Len(marked_for_deletion') = Cardinality(after)
               ELSE /\ marked_for_deletion' = marked_for_deletion
                    /\ delete_mode' = delete_mode
            /\ after \subseteq Paths(entries')]_vars

\* Delete was pressed on the create-new row while another row is marked
C14_Witness ==
    /\ pc = "main"
    /\ lastKey = "Delete"
    /\ input_buffer # <<>>
    /\ cursor_pos = Len(View)
    /\ Len(entries) > Len(View)
    /\ marked_for_deletion # <<>>

\* C15: from any state with the cursor on an unmarked real entry, Delete
\* pressed twice in a row gives back marked_for_deletion exactly as it was,
\* and delete_mode as it was.
C15_DeleteTwiceRestores ==
    (/\ pc = "main"
     /\ cursor_pos < Len(View)
     /\ View[cursor_pos + 1].path \notin Range(marked_for_deletion)) =>
        LET once  == toggle_delete_mark(entries, input_buffer, cursor_pos,
                                        marked_for_deletion, delete_mode)
            twice == toggle_delete_mark(entries, input_buffer, cursor_pos,
                                        once.marked, once.delete_mode)
        IN  /\ once.marked # marked_for_deletion
            /\ twice.marked = marked_for_deletion
            /\ twice.delete_mode = delete_mode

\* Delete has just unmarked the row under the cursor and other marks remain
C15_Witness ==
    /\ pc = "main"
    /\ lastKey = "Delete"
    /\ cursor_pos < Len(View)
    /\ View[cursor_pos + 1].path \notin Range(marked_for_deletion)
    /\ marked_for_deletion # <<>>
    /\ delete_mode

\* C16: at every paint (the first, after every edit of the query, after the
\* reload that follows a batch delete) the rows are in descending order of
\* score: of two loaded entries the one that scores higher under the
\* current query comes first.
C16_RowsByDescendingScore ==
    pc \in {"main", "confirm"} =>
        LET now == [i \in 1..Len(entries) |->
                       calculate_score(entries[i], Lower(input_buffer))]
        IN  \A i, j \in 1..Len(entries) :
                /\ entries[i].score = now[i]
                /\ now[i] > now[j] => i < j

\* a typed query has put two matching entries in the reverse of listing order
C16_Witness ==
    /\ pc = "main"
    /\ lastKey = "Char"
    /\ input_buffer # <<>>
    /\ Len(entries) = 2
    /\ entries[1].path = "base/b-1"
    /\ entries[2].path = "base/Ab"
    /\ entries[1].score > entries[2].score
    /\ entries[2].score > 0

\* the step leaves the query q, the cursor on row 0, the same entries each
\* scored against q and in descending order of score, and the marks as they were
QueryEdited(q) ==
    /\ input_buffer' = q
    /\ cursor_pos' = 0
    /\ marked_for_deletion' = marked_for_deletion
    /\ Len(entries') = Len(entries)
    /\ Paths(entries') = Paths(entries)
    /\ \A i \in 1..Len(entries') :
          entries'[i].score = calculate_score(entries'[i], Lower(q))
    /\ \A i, j \in 1..Len(entries') :
          i < j => entries'[i].score >= entries'[j].score

\* C17: a character key that is alphanumeric, '-', '_', '.' or a space
\* appends it to the query, Backspace removes the last character of the
\* query (an empty query stays empty); both put the cursor on row 0, rescore
\* every entry against the new query and re-sort before the paint, and keep
\* the marks.  Any other character key leaves query, cursor, entries and
\* marks as they were.
C17_QueryEditing ==
    [][pc = "main" =>
        /\ \A c \in QueryKeys :
              KeyChar(c) =>
                  IF is_alphanumeric(c) \/ c \in {"-", "_", ".", " "}
                  THEN QueryEdited(Append(input_buffer, c))
                  ELSE UNCHANGED << input_buffer, cursor_pos, entries,
                                    marked_for_deletion >>
        /\ lastKey' = "Backspace" =>
              QueryEdited(IF input_buffer = <<>> THEN <<>>
                          ELSE SubSeq(input_buffer, 1, Len(input_buffer) - 1))]_vars

\* a space has been typed after another character while a row is marked
C17_Witness ==
    /\ pc = "main"
    /\ lastKey = "Char"
    /\ Len(input_buffer) = 2
    /\ input_buffer[2] = " "
    /\ cursor_pos = 0
    /\ marked_for_deletion # <<>>

\* what a step removes from the disk is marked or lies beneath a marked
\* path, and only the Enter that follows a typed YES removes anything
OnlyMarkedRemoved ==
    fs' # fs =>
        /\ pc = "confirm" /\ lastKey' = "Enter" /\ input = YES
        /\ fs' \subseteq fs
        /\ \A p \in fs \ fs' :
              \E i \in 1..Len(marked_for_deletion) :
                  p = marked_for_deletion[i] \/ p \in Descendants(marked_for_deletion[i])

\* C18 as stated: a session changes nothing on the disk but the marked
\* directories it removes after YES; a Scan session started on a missing
\* base directory leaves it missing.
C18_NoMutationButRemoval ==
    [][base_exists' = base_exists /\ OnlyMarkedRemoved]_vars

\* C18 amended: a session changes nothing on the disk but (a) the base
\* directory, which a Scan session creates at startup when it is missing,
\* and (b) the marked directories it removes after YES.
C18_BaseCreatedMarkedRemoved ==
    [][/\ OnlyMarkedRemoved
       /\ base_exists' # base_exists =>
             (pc = "new" /\ mode = "Scan" /\ base_exists')
       /\ (pc = "new" /\ pc' = "main" /\ mode = "Scan") => base_exists']_vars

\* a Scan session started on a missing base directory was cancelled without
\* any delete: the base directory now exists, empty
C18_Witness ==
    /\ pc = "exited"
    /\ mode = "Scan"
    /\ result.kind = "Cancelled"
    /\ delete_status = StatusNone
    /\ fs = {}
    /\ base_exists

\* the Enter of the sub-loop after a typed YES
AuthorizedEnter == pc = "confirm" /\ lastKey' = "Enter" /\ input = YES

\* C19 as stated: in an authorized batch delete a marked path that no longer
\* exists is skipped without error and the rest is still processed; a
\* removal that fails aborts the batch there: no later marked path is
\* removed, the earlier removals stay, and the run ends with an error and
\* no committed action.
C19_AbortLeavesLaterMarks ==
    [][AuthorizedEnter =>
        LET m == marked_for_deletion
        IN  IF pc' = "main"
            THEN \A i \in 1..Len(m) : m[i] \notin fs'
            ELSE /\ pc' = "exited"
                 /\ result' = Err
                 /\ \E i \in 1..Len(m) :
                       /\ m[i] \in fs'
                       /\ \A j \in 1..(i - 1) : m[j] \notin fs'
                       /\ \A j \in (i + 1)..Len(m) : m[j] \in fs => m[j] \in fs']_vars

\* C19 amended: as above, but a later marked path stays only if it does not
\* lie beneath the failing path or beneath an earlier marked one.
C19_AbortLeavesMarksOutside ==
    [][AuthorizedEnter =>
        LET m == marked_for_deletion
        IN  IF pc' = "main"
            THEN \A i \in 1..Len(m) : m[i] \notin fs'
            ELSE /\ pc' = "exited"
                 /\ result' = Err
                 /\ \E i \in 1..Len(m) :
                       /\ m[i] \in fs'
                       /\ \A j \in 1..(i - 1) : m[j] \notin fs'
                       /\ \A j \in (i + 1)..Len(m) :
                             (m[j] \in fs /\ \A k \in 1..i : m[j] \notin Descendants(m[k]))
                                 => m[j] \in fs']_vars

\* the first of two marked directories is gone, the removal of the second
\* failed and ended the run
C19_Witness ==
    /\ pc = "exited"
    /\ result = Err
    /\ Len(marked_for_deletion) = 2
    /\ marked_for_deletion[1] \notin fs
    /\ marked_for_deletion[2] \in fs

C21_HighlightIsScorerMatch ==
    (pc = "main" /\ input_buffer # <<>>) =>
        \A i \in 1..Len(View) :
            highlighted(View[i].basename, input_buffer)
                = score_positions(View[i], Lower(input_buffer))

\* the marked paths the loop of an authorized delete does not skip: those
\* that exist when their turn comes, not being beneath an earlier marked one
Unskipped(m, f) ==
    {i \in 1..Len(m) :
        /\ m[i] \in f
        /\ \A k \in 1..(i - 1) : m[i] # m[k] /\ m[i] \notin Descendants(m[k])}

\* C22: after an authorized batch delete the count in the status message is
\* the number of directories that batch removed; a marked path that was
\* skipped because it no longer existed is not counted.
C22_CountIsRemoved ==
    [][(AuthorizedEnter /\ pc' = "main") =>
        /\ delete_status'.kind = "Deleted"
        /\ delete_status'.count
             = Cardinality(Unskipped(marked_for_deletion, fs))]_vars

\* C23: whenever at least one entry is marked, the footer painted is the
\* delete-mode footer (the number of marks and the confirm/cancel hint),
\* also in states reached after an earlier delete confirmation of the
\* same session.
C23_DeleteFooterWhenMarked ==
    (pc = "main" /\ marked_for_deletion # <<>>) => footer(frame_in) = "delete mode"

\* C24: every path an authorized batch delete removes is a row of the
\* filtered view when Enter opens the confirmation: no mark refers to an
\* entry the current query hides, also after the query was edited while
\* entries were marked.
C24_MarksAreVisible ==
    pc \in {"main", "confirm"} => Range(marked_for_deletion) \subseteq Paths(View)

\* C24 as amended: every mark is the path of a loaded entry and was a row of
\* the filtered view at the moment it was marked; typing or removing a
\* character of the query leaves the marks exactly as they were, so Enter
\* can open the confirmation on marks the current query hides, and an
\* authorized batch delete removes only marked paths and what lies below
\* them.
C24_MarksWereVisible ==
    [][/\ pc' \in {"main", "confirm"} =>
            Range(marked_for_deletion') \subseteq Paths(entries')
       /\ (Range(marked_for_deletion') \ Range(marked_for_deletion))
            \subseteq Paths(View)
       /\ (pc = "main" /\ lastKey' \in {"Char", "Backspace"}) =>
            marked_for_deletion' = marked_for_deletion
       /\ AuthorizedEnter =>
            \A p \in fs \ fs' :
                \E m \in Range(marked_for_deletion) :
                    p = m \/ p \in Descendants(m)]_vars

\* the confirmation holds YES while a marked entry is hidden by the query
C24_Witness ==
    /\ pc = "confirm"
    /\ input = YES
    /\ input_buffer # <<>>
    /\ \E p \in Range(marked_for_deletion) : p \notin Paths(View) /\ p \in fs

\* the rows of the list: the filtered entries and the create-new row
total_items == Len(View) + (IF input_buffer # <<>> THEN 1 ELSE 0)

\* C25: at every paint scroll_offset is at most the total number of rows,
\* so min(scroll_offset + max_visible_rows, total) - scroll_offset is never
\* negative, also after batch deletes that shrink the list.
C25_ScrollWithinRows ==
    pc = "main" => scroll_offset <= total_items

\* C26: from any state of the main loop two consecutive Esc or Ctrl-C
\* presses end the session cancelled, with no action committed and no
\* directory removed: a cancel key removes nothing; it stays in the loop
\* only when delete_mode was set, and then leaves no mark and no
\* delete_mode behind; a cancel key that follows a cancel key exits, and
\* every exit by a cancel key has the result cancelled.
C26_TwoCancelsExit ==
    [][(pc = "main" /\ lastKey' \in {"Esc", "CtrlC"}) =>
        /\ fs' = fs
        /\ base_exists' = base_exists
        /\ pc' \in {"main", "exited"}
        /\ pc' = "exited" => result'.kind = "Cancelled"
        /\ pc' = "main" =>
              /\ delete_mode
              /\ marked_for_deletion' = <<>>
              /\ delete_mode' = FALSE
              /\ result' = NoResult
        /\ lastKey \in {"Esc", "CtrlC"} => pc' = "exited"]_vars

\* a first cancel key has cleared the marks of a session with a typed
\* query and left it in the main loop, where the second one exits
C26_Witness ==
    /\ pc = "main"
    /\ lastKey \in {"Esc", "CtrlC"}
    /\ marked_for_deletion = <<>>
    /\ ~delete_mode
    /\ input_buffer # <<>>

\* the rows of the loaded entries es for the query buf when they are
\* scored and sorted from the order load_entries yields them in
FreshRows(es, buf) ==
    get_filtered_entries(
        refresh_scores(load_entries(mode, TRUE, Paths(es)), buf), buf)

\* the position of the entry with path p in es
PosOf(es, p) == CHOOSE i \in 1..Len(es) : es[i].path = p

\* C27: for a fixed set of loaded entries the order of the rows is a
\* function of the current query alone, also among entries of equal score:
\* whatever keys led to the query, the entries stand as a sort of the
\* loaded list under that query puts them.
C27_OrderFromQueryAlone ==
    pc = "main" => View = FreshRows(entries, input_buffer)

\* C27 as amended: the order is by descending score, and among entries of
\* equal score a query edit keeps the order they had before it (the sort is
\* stable), so the order of ties depends on the queries typed before.
C27_TiesKeepPriorOrder ==
    [][(pc = "main" /\ pc' = "main" /\ lastKey' \in {"Char", "Backspace"}) =>
        /\ Paths(entries') = Paths(entries)
        /\ Len(entries') = Len(entries)
        /\ \A i, j \in 1..Len(entries') :
              i < j =>
                  \/ entries'[i].score > entries'[j].score
                  \/ /\ entries'[i].score = entries'[j].score
                     /\ PosOf(entries, entries'[i].path)
                            < PosOf(entries, entries'[j].path)]_vars

\* a Backspace has left two entries of equal score in the order the longer
\* query gave them, which is not the order of a fresh load
C27_Witness ==
    /\ pc = "main"
    /\ lastKey = "Backspace"
    /\ delete_status = StatusNone
    /\ View # FreshRows(entries, input_buffer)
    /\ \E i \in 1..(Len(View) - 1) : View[i].score = View[i + 1].score

====
